---- MODULE Spec2Model ----
(***************************************************************************)
(* Model of src/app.py: the Streamlit page that uploads a manuscript       *)
(* image, calls the hosted detector, filters the predictions at the        *)
(* confidence threshold, draws the boxes and lists the detections.         *)
(*                                                                         *)
(* Streamlit runs the script top to bottom once per interaction; pc is the *)
(* position of the current run in the script and "ready" is the state      *)
(* between two runs.                                                       *)
(*                                                                         *)
(* Numbers.  Pixel quantities (x, y, width, height) are fixed-point with   *)
(* Scale units per pixel; confidences and the threshold are in ConfScale   *)
(* units per 1.0 (the slider's step of 0.01).                              *)
(***************************************************************************)
EXTENDS Integers, Sequences, FiniteSets

\* ---------------------------------------------------------------- bounds
\* Units per pixel of the fixed-point pixel quantities.
Scale == 10
\* Longest prediction list a response carries.
MaxPreds == 2
\* Most temporary files left on disk before the model stops starting runs.
MaxFiles == 2

\* ------------------------------------------------------ program constants
\* The slider runs from 0.0 to 1.0 in steps of 0.01: 100 units per 1.0.
ConfScale == 100
\* The slider's default value, 0.39.
DefaultSeuil == 39

\* ------------------------------------------------------------ input sets
Pred(c, k, x, y, w, h) ==
    [class |-> c, confidence |-> k, x |-> x, y |-> y, width |-> w, height |-> h]

Drop(p, f) == [g \in (DOMAIN p) \ {f} |-> p[g]]

\* class "ink", confidence 0.90, centre (100,100), 40 x 20.
Ink == Pred("ink", 90, 100 * Scale, 100 * Scale, 40 * Scale, 20 * Scale)
\* A box over the top-left corner, confidence exactly the default threshold:
\* x - width/2 = -0.5, and a height with a fractional part above one half.
Edge == Pred("ink", DefaultSeuil, 2 * Scale, Scale, 5 * Scale, 40 * Scale + 7)
\* Confidence 0.20, every pixel quantity with a fractional part.
Faint == Pred("stain", 20, 30 * Scale + 5, 40 * Scale + 7, 40 * Scale + 7, 12 * Scale + 6)
\* Confidence 0.50.
Mid == Pred("ink", 50, 60 * Scale + 3, 70 * Scale, 10 * Scale + 5, 8 * Scale + 9)

WellFormedPreds == {Ink, Edge, Faint, Mid}

MalformedPreds ==
    {Drop(Ink, "confidence"), Drop(Ink, "x"), Drop(Faint, "x"), Drop(Mid, "class")}

SamplePreds == WellFormedPreds \cup MalformedPreds

SeqsUpTo(S, n) == UNION {[1..k -> S] : k \in 0..n}

\* What CLIENT.infer can return: a predictions list, or a body without one.
Responses ==
    {[predictions |-> P] : P \in SeqsUpTo(SamplePreds, MaxPreds)}
        \cup {[message |-> "Forbidden"]}

NoResult == [message |-> "none"]

Thresholds == {0, DefaultSeuil, 95, ConfScale}

\* The uploader accepts jpg, jpeg and png; what the bytes hold is the user's.
\* "corrupt": not a decodable image.  "png_rgba": a PNG with an alpha channel.
Uploads == {"none", "jpg_rgb", "png_rgb", "png_rgba", "corrupt"}

VARIABLES
    pc,                   \* position of the current run in the script
    outcome,              \* how the last run ended ("none" while running)
    api_key,              \* "unread" | "set" | "missing"
    CLIENT,               \* "none" | "built"
    seuil_confiance,      \* the slider's value
    uploaded_file,        \* the uploader's value
    tmp_created,          \* this run created its temporary file
    tmp_exists,           \* this run's temporary file is on disk
    disk,                 \* temporary files on disk, of any run
    disk0,                \* disk when this run started
    result,               \* what CLIENT.infer returned
    predictions_filtered,
    boxes,                \* rectangles drawn on img_rgb (in memory)
    shown,                \* what the page displays
    report,               \* the expanders of the summary, in order
    count,                \* the number in the results header (-1: no header)
    infer_calls,          \* calls of CLIENT.infer in this run
    steps,                \* pipeline steps this run has entered, in order
    failed_at,            \* the step that raised, "none" if none did
    exc                   \* "none" | "raised" (in flight) | "handled"

vars == <<pc, outcome, api_key, CLIENT, seuil_confiance, uploaded_file,
          tmp_created, tmp_exists, disk, disk0, result, predictions_filtered,
          boxes, shown, report, count, infer_calls, steps, failed_at, exc>>


\* ------------------------------------------------------- pure functions
Has(p, f) == f \in DOMAIN p

\* Mutant of FilterPreds: a strict comparison drops confidence = threshold.
RECURSIVE FilterStrict(_, _)
FilterStrict(P, t) ==
    IF P = <<>> THEN <<>>
    ELSE IF Head(P).confidence > t
         THEN <<Head(P)>> \o FilterStrict(Tail(P), t)
         ELSE FilterStrict(Tail(P), t)

\* Mutant of FilterPreds: the comparison the wrong way round.
RECURSIVE FilterInverted(_, _)
FilterInverted(P, t) ==
    IF P = <<>> THEN <<>>
    ELSE IF Head(P).confidence <= t
         THEN <<Head(P)>> \o FilterInverted(Tail(P), t)
         ELSE FilterInverted(Tail(P), t)

\* [p for p in P if p["confidence"] >= t], app.py 101-104.
RECURSIVE FilterPreds(_, _)
FilterPreds(P, t) ==
    IF P = <<>> THEN <<>>
    ELSE IF Head(P).confidence >= t
         THEN <<Head(P)>> \o FilterPreds(Tail(P), t)
         ELSE FilterPreds(Tail(P), t)

\* The comprehension reads p["confidence"] of every element: KeyError if absent.
FilterRaises(r) ==
    \/ ~Has(r, "predictions")
    \/ \E i \in 1..Len(r.predictions) : ~Has(r.predictions[i], "confidence")

\* Mutant of Trunc: floor division, which differs below zero.
TruncFloor(n, d) == n \div d

\* Mutant of Trunc: round to the nearest integer, halves upwards.
TruncRound(n, d) == (2 * n + d) \div (2 * d)

\* int(n/d) on a float: the fractional part is dropped, towards zero.
Trunc(n, d) == IF n >= 0 THEN n \div d ELSE -((-n) \div d)

\* x1, y1 = int(x - width/2), int(y - height/2); x2, y2 likewise; the label
\* is f"{class} {confidence:.2f}".  app.py 108-112.
BoxOf(p) ==
    [x1 |-> Trunc(2 * p.x - p.width, 2 * Scale),
     y1 |-> Trunc(2 * p.y - p.height, 2 * Scale),
     x2 |-> Trunc(2 * p.x + p.width, 2 * Scale),
     y2 |-> Trunc(2 * p.y + p.height, 2 * Scale),
     label |-> <<p.class, p.confidence>>]

\* One pass of the draw loop reads x, y, width, height, then class and
\* confidence, before it draws anything for that prediction.
Drawable(p) ==
    {"x", "y", "width", "height", "class", "confidence"} \subseteq DOMAIN p

\* Index of the first prediction the draw loop raises on, Len(F) + 1 if none.
FirstUndrawable(F) ==
    LET bad == {i \in 1..Len(F) : ~Drawable(F[i])}
    IN  IF bad = {} THEN Len(F) + 1
        ELSE CHOOSE i \in bad : \A j \in bad : i <= j

\* The rectangles on img_rgb when the draw loop ends or raises.
DrawBoxes(F) == [i \in 1..(FirstUndrawable(F) - 1) |-> BoxOf(F[i])]

\* Mutant of Entry: the enumeration starts at 0.
EntryFromZero(i, p) ==
    [index |-> i - 1,
     class |-> p.class,
     percent |-> (p.confidence * 1000) \div ConfScale,
     width |-> Trunc(p.width, Scale),
     height |-> Trunc(p.height, Scale),
     x |-> Trunc(p.x, Scale),
     y |-> Trunc(p.y, Scale)]

\* One expander of the summary: enumerate(predictions_filtered, 1), the
\* confidence as f"{c:.1%}" (in tenths of a percent), int(width) x int(height)
\* and (int(x), int(y)).  app.py 146-159.
Entry(i, p) ==
    [index |-> i,
     class |-> p.class,
     percent |-> (p.confidence * 1000) \div ConfScale,
     width |-> Trunc(p.width, Scale),
     height |-> Trunc(p.height, Scale),
     x |-> Trunc(p.x, Scale),
     y |-> Trunc(p.y, Scale)]

Summarize(F) == [i \in 1..Len(F) |-> Entry(i, F[i])]

\* ----------------------------------------------------------------- state
Init ==
    /\ pc = "ready"
    /\ outcome = "none"
    /\ api_key = "unread"
    /\ CLIENT = "none"
    /\ seuil_confiance = DefaultSeuil
    /\ uploaded_file = "none"
    /\ tmp_created = FALSE
    /\ tmp_exists = FALSE
    /\ disk = 0
    /\ disk0 = 0
    /\ result = NoResult
    /\ predictions_filtered = <<>>
    /\ boxes = <<>>
    /\ shown = {}
    /\ report = <<>>
    /\ count = -1
    /\ infer_calls = 0
    /\ steps = <<>>
    /\ failed_at = "none"
    /\ exc = "none"

\* What a run leaves alone until the pipeline fills it.
PipelineUnchanged ==
    UNCHANGED <<result, predictions_filtered, boxes, report, count,
                infer_calls, steps>>

FilesUnchanged == UNCHANGED <<tmp_created, tmp_exists, disk, disk0>>

ConfigUnchanged == UNCHANGED <<api_key, CLIENT, seuil_confiance, uploaded_file>>

\* An interaction (upload, slider move, page load) starts a run of the script
\* from its first line with a blank page; files on disk stay where they are.
Rerun ==
    /\ pc = "ready"
    /\ disk < MaxFiles
    /\ pc' = "secrets"
    /\ outcome' = "none"
    /\ api_key' = "unread"
    /\ CLIENT' = "none"
    /\ uploaded_file' = "none"
    /\ tmp_created' = FALSE
    /\ tmp_exists' = FALSE
    /\ disk0' = disk
    /\ result' = NoResult
    /\ predictions_filtered' = <<>>
    /\ boxes' = <<>>
    /\ shown' = {}
    /\ report' = <<>>
    /\ count' = -1
    /\ infer_calls' = 0
    /\ steps' = <<>>
    /\ failed_at' = "none"
    /\ exc' = "none"
    /\ UNCHANGED <<seuil_confiance, disk>>

\* Mutant of ReadSecrets: the error is shown but st.stop() is not called.
ReadSecretsNoStop ==
    /\ pc = "secrets"
    /\ \E present \in BOOLEAN :
          IF present
          THEN /\ api_key' = "set"
               /\ UNCHANGED shown
          ELSE /\ api_key' = "missing"
               /\ shown' = shown \cup {"key_error"}
    /\ pc' = "client"
    /\ UNCHANGED <<outcome, CLIENT, seuil_confiance, uploaded_file, failed_at, exc>>
    /\ FilesUnchanged
    /\ PipelineUnchanged

\* app.py 21-26: st.secrets["ROBOFLOW_API_KEY"]; without it st.error, st.info
\* and st.stop(), which ends the run.
ReadSecrets ==
    /\ pc = "secrets"
    /\ \E present \in BOOLEAN :
          IF present
          THEN /\ api_key' = "set"
               /\ pc' = "client"
               /\ UNCHANGED <<outcome, shown>>
          ELSE /\ api_key' = "missing"
               /\ shown' = shown \cup {"key_error"}
               /\ pc' = "ready"
               /\ outcome' = "stopped"
    /\ UNCHANGED <<CLIENT, seuil_confiance, uploaded_file, failed_at, exc>>
    /\ FilesUnchanged
    /\ PipelineUnchanged

\* app.py 29-37: the client is constructed; if the constructor raises, st.error
\* and st.stop().
InitClient ==
    /\ pc = "client"
    /\ \E built \in BOOLEAN :
          IF built
          THEN /\ CLIENT' = "built"
               /\ shown' = shown \cup {"connected"}
               /\ pc' = "sidebar"
               /\ UNCHANGED outcome
          ELSE /\ shown' = shown \cup {"connection_error"}
               /\ pc' = "ready"
               /\ outcome' = "stopped"
               /\ UNCHANGED CLIENT
    /\ UNCHANGED <<api_key, seuil_confiance, uploaded_file, failed_at, exc>>
    /\ FilesUnchanged
    /\ PipelineUnchanged

\* app.py 40-65: the sidebar; the slider returns the threshold the user set.
Sidebar ==
    /\ pc = "sidebar"
    /\ \E t \in Thresholds : seuil_confiance' = t
    /\ pc' = "uploader"
    /\ UNCHANGED <<outcome, api_key, CLIENT, uploaded_file, shown, failed_at, exc>>
    /\ FilesUnchanged
    /\ PipelineUnchanged

\* app.py 70-76: the uploader returns the file the user gave, which sends the
\* run into the pipeline.
FileUploader ==
    /\ pc = "uploader"
    /\ \E f \in Uploads \ {"none"} : uploaded_file' = f
    /\ pc' = "open"
    /\ UNCHANGED <<outcome, api_key, CLIENT, seuil_confiance, shown, failed_at, exc>>
    /\ FilesUnchanged
    /\ PipelineUnchanged

\* app.py 70-76, 177-197: the uploader returns None; the instructions are
\* shown and the run ends.
NoUpload ==
    /\ pc = "uploader"
    /\ uploaded_file' = "none"
    /\ shown' = shown \cup {"instructions"}
    /\ pc' = "ready"
    /\ outcome' = "idle"
    /\ UNCHANGED <<api_key, CLIENT, seuil_confiance, failed_at, exc>>
    /\ FilesUnchanged
    /\ PipelineUnchanged

\* app.py 78-84: Image.open and the original image shown.  Bytes that are no
\* image raise; no try encloses the line, so the exception ends the run.
OpenImage ==
    /\ pc = "open"
    /\ IF uploaded_file = "corrupt"
       THEN /\ failed_at' = "open"
            /\ exc' = "raised"
            /\ pc' = "ready"
            /\ outcome' = "crash"
            /\ shown' = shown \cup {"traceback"}
       ELSE /\ shown' = shown \cup {"original"}
            /\ pc' = "save"
            /\ UNCHANGED <<outcome, failed_at, exc>>
    /\ ConfigUnchanged
    /\ FilesUnchanged
    /\ PipelineUnchanged

\* app.py 87-89: NamedTemporaryFile(delete=False, suffix=".jpg") creates the
\* file, image.save writes the image into it as JPEG.  JPEG has no alpha
\* channel: saving an RGBA image raises OSError.  The with block closes the
\* file and, with delete=False, keeps it; no try encloses the block.
SaveTemp ==
    /\ pc = "save"
    /\ tmp_created' = TRUE
    /\ tmp_exists' = TRUE
    /\ disk' = disk + 1
    /\ IF uploaded_file = "png_rgba"
       THEN /\ failed_at' = "save"
            /\ exc' = "raised"
            /\ pc' = "ready"
            /\ outcome' = "crash"
            /\ shown' = shown \cup {"traceback"}
       ELSE /\ pc' = "infer"
            /\ UNCHANGED <<outcome, failed_at, exc, shown>>
    /\ UNCHANGED disk0
    /\ ConfigUnchanged
    /\ PipelineUnchanged

\* ------------------------------------------------- the try block, 92-175
\* An exception raised inside the try block: control goes to the except clause.
Raise(step) ==
    /\ failed_at' = step
    /\ exc' = "raised"
    /\ pc' = "except"

\* app.py 93-94: CLIENT.infer(tmp_path, model_id=model_id) returns a response
\* or raises (network, credential, model id).
Infer ==
    /\ pc = "infer"
    /\ infer_calls' = infer_calls + 1
    /\ steps' = Append(steps, "infer")
    /\ \/ \E r \in Responses :
            /\ result' = r
            /\ pc' = "imread"
            /\ UNCHANGED <<failed_at, exc>>
       \/ /\ Raise("infer")
          /\ UNCHANGED result
    /\ UNCHANGED <<outcome, shown, predictions_filtered, boxes, report, count>>
    /\ ConfigUnchanged
    /\ FilesUnchanged

\* app.py 97-98: cv2.imread(tmp_path) and cv2.cvtColor; imread returns None for
\* a file it cannot decode and cvtColor then raises.
LoadImage ==
    /\ pc = "imread"
    /\ \/ /\ pc' = "filter"
          /\ UNCHANGED <<failed_at, exc>>
       \/ Raise("imread")
    /\ UNCHANGED <<outcome, shown>>
    /\ ConfigUnchanged
    /\ FilesUnchanged
    /\ PipelineUnchanged

\* app.py 101-104: the comprehension over result["predictions"].
Filter ==
    /\ pc = "filter"
    /\ steps' = Append(steps, "filter")
    /\ IF FilterRaises(result)
       THEN /\ Raise("filter")
            /\ UNCHANGED predictions_filtered
       ELSE /\ predictions_filtered' = FilterPreds(result.predictions, seuil_confiance)
            /\ pc' = "draw"
            /\ UNCHANGED <<failed_at, exc>>
    /\ UNCHANGED <<outcome, shown, result, boxes, report, count, infer_calls>>
    /\ ConfigUnchanged
    /\ FilesUnchanged

\* app.py 107-133: the draw loop; it raises KeyError at the first prediction
\* that lacks a field, with the earlier rectangles already on img_rgb.
Draw ==
    /\ pc = "draw"
    /\ steps' = Append(steps, "render")
    /\ boxes' = DrawBoxes(predictions_filtered)
    /\ IF FirstUndrawable(predictions_filtered) <= Len(predictions_filtered)
       THEN Raise("draw")
       ELSE /\ pc' = "show"
            /\ UNCHANGED <<failed_at, exc>>
    /\ UNCHANGED <<outcome, shown, result, predictions_filtered, report, count,
                   infer_calls>>
    /\ ConfigUnchanged
    /\ FilesUnchanged

\* app.py 136-138: st.image(img_rgb) in the second column.
ShowAnnotated ==
    /\ pc = "show"
    /\ shown' = shown \cup {"annotated"}
    /\ pc' = "summary"
    /\ UNCHANGED <<outcome, failed_at, exc>>
    /\ ConfigUnchanged
    /\ FilesUnchanged
    /\ PipelineUnchanged

\* app.py 141-162: the header with the count, then one expander per filtered
\* prediction, or the warning when there is none.  Any of the st calls may
\* raise; the header is on the page by then.
Summary ==
    /\ pc = "summary"
    /\ steps' = Append(steps, "summarize")
    /\ count' = Len(predictions_filtered)
    /\ \/ /\ report' = Summarize(predictions_filtered)
          /\ shown' = shown \cup {"header"} \cup
                (IF predictions_filtered # <<>> THEN {"report"} ELSE {"warning"})
          /\ pc' = "raw"
          /\ UNCHANGED <<failed_at, exc>>
       \/ /\ shown' = shown \cup {"header"}
          /\ Raise("summary")
          /\ UNCHANGED report
    /\ UNCHANGED <<outcome, result, predictions_filtered, boxes, infer_calls>>
    /\ ConfigUnchanged
    /\ FilesUnchanged

\* app.py 165-166: the raw response in an expander; the try block ends.
RawJson ==
    /\ pc = "raw"
    /\ shown' = shown \cup {"raw"}
    /\ pc' = "finally"
    /\ UNCHANGED <<outcome, failed_at, exc>>
    /\ ConfigUnchanged
    /\ FilesUnchanged
    /\ PipelineUnchanged

\* Mutant of Except: except KeyError, which lets every other exception through.
ExceptKeyErrorOnly ==
    /\ pc = "except"
    /\ IF failed_at \in {"filter", "draw"}
       THEN /\ exc' = "handled"
            /\ shown' = shown \cup {"error"}
       ELSE UNCHANGED <<exc, shown>>
    /\ pc' = "finally"
    /\ UNCHANGED <<outcome, failed_at>>
    /\ ConfigUnchanged
    /\ FilesUnchanged
    /\ PipelineUnchanged

\* Mutant of Except: the handler shows the error and runs the call again.
ExceptRetry ==
    /\ pc = "except"
    /\ exc' = "none"
    /\ shown' = shown \cup {"error"}
    /\ pc' = "infer"
    /\ UNCHANGED <<outcome, failed_at>>
    /\ ConfigUnchanged
    /\ FilesUnchanged
    /\ PipelineUnchanged

\* app.py 168-170: except Exception catches whatever the try block raised:
\* st.error with the message and st.info.
Except ==
    /\ pc = "except"
    /\ exc' = "handled"
    /\ shown' = shown \cup {"error"}
    /\ pc' = "finally"
    /\ UNCHANGED <<outcome, failed_at>>
    /\ ConfigUnchanged
    /\ FilesUnchanged
    /\ PipelineUnchanged

\* app.py 172-175: finally: the temporary file is unlinked if it exists; the
\* run ends, with the exception still in flight if no clause handled it.
Finally ==
    /\ pc = "finally"
    /\ IF tmp_exists
       THEN /\ tmp_exists' = FALSE
            /\ disk' = disk - 1
       ELSE UNCHANGED <<tmp_exists, disk>>
    /\ pc' = "ready"
    /\ IF exc = "raised"
       THEN /\ outcome' = "crash"
            /\ shown' = shown \cup {"traceback"}
       ELSE /\ outcome' = IF exc = "handled" THEN "error" ELSE "ok"
            /\ UNCHANGED shown
    /\ UNCHANGED <<tmp_created, disk0, failed_at, exc>>
    /\ ConfigUnchanged
    /\ PipelineUnchanged

Next ==
    \/ Rerun
    \/ ReadSecrets
    \/ InitClient
    \/ Sidebar
    \/ FileUploader
    \/ NoUpload
    \/ OpenImage
    \/ SaveTemp
    \/ Infer
    \/ LoadImage
    \/ Filter
    \/ Draw
    \/ ShowAnnotated
    \/ Summary
    \/ RawJson
    \/ Except
    \/ Finally

Spec == Init /\ [][Next]_vars

\* ================================================================ claims
\* The filter step of this run has completed without raising.
FilterDone ==
    /\ \E i \in DOMAIN steps : steps[i] = "filter"
    /\ failed_at # "filter"

\* Indices of P whose confidence is at least t.
Kept(P, t) == {i \in 1..Len(P) : P[i].confidence >= t}

\* The j-th smallest element of a set of indices.
NthOf(K, j) == CHOOSE i \in K : Cardinality({k \in K : k <= i}) = j

RECURSIVE IsSubseq(_, _)
IsSubseq(a, b) ==
    IF a = <<>> THEN TRUE
    ELSE IF b = <<>> THEN FALSE
    ELSE IF Head(a) = Head(b) THEN IsSubseq(Tail(a), Tail(b))
    ELSE IsSubseq(a, Tail(b))

\* C1: once the filter has run on the returned list P at threshold t, the
\* filtered list is exactly P restricted to the indices whose confidence is
\* >= t, in increasing index order: as many elements as such indices, the j-th
\* of them the element at the j-th such index, so never longer than P, keeping
\* confidence = t and nothing below t.
C1_FilterExact ==
    FilterDone =>
        LET P == result.predictions
            F == predictions_filtered
            K == Kept(P, seuil_confiance)
        IN  /\ Len(F) = Cardinality(K)
            /\ Len(F) <= Len(P)
            /\ \A j \in 1..Len(F) : F[j] = P[NthOf(K, j)]
            /\ \A j \in 1..Len(F) : F[j].confidence >= seuil_confiance

\* C1 witness: the filter kept a prediction whose confidence equals the
\* threshold and dropped one below it.
C1_Witness ==
    /\ FilterDone
    /\ Len(predictions_filtered) = 1
    /\ Len(result.predictions) = 2
    /\ predictions_filtered[1].confidence = seuil_confiance
    /\ \E i \in 1..2 : result.predictions[i].confidence < seuil_confiance

\* C7: the list filtered at the slider's threshold contains, as an ordered
\* subsequence, the list filtered at any higher threshold, and is itself an
\* ordered subsequence of the list filtered at any lower threshold.
C7_FilterMonotone ==
    FilterDone =>
        \A t \in Thresholds :
            /\ t >= seuil_confiance =>
                 IsSubseq(FilterPreds(result.predictions, t), predictions_filtered)
            /\ t <= seuil_confiance =>
                 IsSubseq(predictions_filtered, FilterPreds(result.predictions, t))

\* C7 witness: a higher threshold keeps strictly fewer of the two predictions
\* the filter kept.
C7_Witness ==
    /\ FilterDone
    /\ Len(predictions_filtered) = 2
    /\ \E t \in Thresholds :
          /\ t > seuil_confiance
          /\ Len(FilterPreds(result.predictions, t)) = 1

\* k is the rational n/d with its fractional part dropped towards zero: it
\* has the sign of n (or is 0) and lies less than one unit inside n/d.
IsTruncOf(k, n, d) ==
    IF n >= 0
    THEN k >= 0 /\ k * d <= n /\ n < (k + 1) * d
    ELSE k <= 0 /\ k * d >= n /\ n > (k - 1) * d

\* C8: every rectangle on the image has the corners trunc(x - width/2),
\* trunc(y - height/2), trunc(x + width/2), trunc(y + height/2) of the filtered
\* prediction at its position, truncated towards zero also below zero; the
\* prediction x=100, y=100, width=40, height=20 gives (80,90)-(120,110).
C8_BoxCorners ==
    \A i \in 1..Len(boxes) :
        LET p == predictions_filtered[i]
            b == boxes[i]
        IN  /\ IsTruncOf(b.x1, 2 * p.x - p.width, 2 * Scale)
            /\ IsTruncOf(b.y1, 2 * p.y - p.height, 2 * Scale)
            /\ IsTruncOf(b.x2, 2 * p.x + p.width, 2 * Scale)
            /\ IsTruncOf(b.y2, 2 * p.y + p.height, 2 * Scale)
            /\ (p = Ink => b.x1 = 80 /\ b.y1 = 90 /\ b.x2 = 120 /\ b.y2 = 110)

\* C8 witness: the scenario's rectangle is drawn, and so is one whose left
\* edge is -0.5 before truncation and 0 after it.
C8_Witness ==
    /\ Len(boxes) = 2
    /\ \E i, j \in 1..2 :
          /\ predictions_filtered[i] = Ink
          /\ boxes[i].x1 = 80 /\ boxes[i].y2 = 110
          /\ predictions_filtered[j] = Edge
          /\ 2 * Edge.x - Edge.width = -Scale
          /\ boxes[j].x1 = 0
          /\ boxes[j].y1 < 0

\* The summary step of this run has completed without raising.
SummaryDone ==
    /\ \E i \in DOMAIN steps : steps[i] = "summarize"
    /\ failed_at = "none"

\* C9: after the summary the report has one entry per filtered prediction, in
\* filtered order, the k-th with index k; the count in the header is that
\* number and the number of rectangles drawn; with nothing filtered there is
\* no entry and the warning is shown instead of the report.
C9_ReportIndices ==
    SummaryDone =>
        LET F == predictions_filtered
        IN  /\ Len(report) = Len(F)
            /\ \A k \in 1..Len(report) :
                  /\ report[k].index = k
                  /\ report[k].class = F[k].class
                  /\ report[k].percent * ConfScale = F[k].confidence * 1000
            /\ count = Len(F)
            /\ count = Len(boxes)
            /\ (F = <<>>) => (report = <<>> /\ "warning" \in shown /\ "report" \notin shown)
            /\ (F # <<>>) => ("report" \in shown /\ "warning" \notin shown)

\* C9 witness: a report of two entries, of different predictions, is shown.
C9_Witness ==
    /\ SummaryDone
    /\ Len(report) = 2
    /\ report[1].class # report[2].class
    /\ count = 2

\* k is an integer nearest to v/Scale.
IsNearest(k, v) ==
    /\ 2 * (k * Scale - v) <= Scale
    /\ 2 * (v - k * Scale) <= Scale

\* C10 as stated: every entry shows width, height, x and y as the integer
\* nearest to the value received.
C10_Rounded ==
    SummaryDone =>
        \A k \in 1..Len(report) :
            /\ IsNearest(report[k].width, predictions_filtered[k].width)
            /\ IsNearest(report[k].height, predictions_filtered[k].height)
            /\ IsNearest(report[k].x, predictions_filtered[k].x)
            /\ IsNearest(report[k].y, predictions_filtered[k].y)

\* C10 amended: every entry shows width, height, x and y with the fractional
\* part dropped (the largest integer not above a non-negative value), so a
\* width of 40.7 is reported as 40.
C10_Truncated ==
    SummaryDone =>
        \A k \in 1..Len(report) :
            /\ IsTruncOf(report[k].width, predictions_filtered[k].width, Scale)
            /\ IsTruncOf(report[k].height, predictions_filtered[k].height, Scale)
            /\ IsTruncOf(report[k].x, predictions_filtered[k].x, Scale)
            /\ IsTruncOf(report[k].y, predictions_filtered[k].y, Scale)

\* C10 witness: a height of 40 and 7 tenths is reported as 40.
C10_Witness ==
    /\ SummaryDone
    /\ \E k \in 1..Len(report) :
          /\ predictions_filtered[k].height = 40 * Scale + 7
          /\ 2 * 7 > Scale
          /\ report[k].height = 40

\* A run has ended and the page waits for the next interaction.
RunEnded == pc = "ready" /\ outcome # "none"

\* C2: when a run that created its temporary file has ended, however it
\* ended, that file is no longer on disk.
C2_TempFileReleased ==
    (RunEnded /\ tmp_created) => ~tmp_exists

\* The steps the try block encloses.
TrySteps == {"infer", "imread", "filter", "draw", "summary"}

\* C3: a failure raised by the inference call, the filter, the rendering or
\* the summary never leaves the run as an uncaught exception: the run goes
\* through the handler, ends with the error message on the page and no
\* traceback, and leaves the page ready as before the upload, with the same
\* files on disk and the next run able to start.
C3_FailureCaught ==
    failed_at \in TrySteps =>
        /\ pc \in {"except", "finally", "ready"}
        /\ outcome \in {"none", "error"}
        /\ "traceback" \notin shown
        /\ pc = "ready" =>
              /\ outcome = "error"
              /\ exc = "handled"
              /\ "error" \in shown
              /\ ~tmp_exists
              /\ disk = disk0
              /\ ENABLED Rerun

\* C3 witness: a run whose inference call raised has ended in the error
\* outcome.
C3_Witness ==
    /\ RunEnded
    /\ failed_at = "infer"
    /\ outcome = "error"
    /\ "error" \in shown

\* The response is not of the shape the pipeline expects: no predictions
\* field, or a prediction without one of its six fields.
Malformed(r) ==
    \/ ~Has(r, "predictions")
    \/ \E i \in 1..Len(r.predictions) : ~Drawable(r.predictions[i])

\* C4: a run whose inference call returned a malformed response ends in the
\* error outcome, and neither the annotated image nor a report entry is ever
\* on the page for it.
C4_MalformedFails ==
    (result # NoResult /\ Malformed(result)) =>
        /\ "annotated" \notin shown
        /\ "report" \notin shown
        /\ report = <<>>
        /\ RunEnded => outcome = "error"

\* Whether a is an initial segment of b.
IsPrefix(a, b) ==
    /\ Len(a) <= Len(b)
    /\ \A i \in 1..Len(a) : a[i] = b[i]

\* The order in which a run enters the steps of its pipeline.
PipelineOrder == <<"infer", "filter", "render", "summarize">>

\* The parts of C5 that hold as stated: the steps a run has entered are an
\* initial segment of infer, filter, render, summarize (each at most once, in
\* that order), every call of the detector is one of them, a step after the
\* call is entered only with the call's response in hand, and a run without
\* an upload makes no call.
C5_Order ==
    /\ IsPrefix(steps, PipelineOrder)
    /\ infer_calls = Cardinality({i \in DOMAIN steps : steps[i] = "infer"})
    /\ Len(steps) >= 2 => (result # NoResult /\ failed_at # "infer")
    /\ uploaded_file = "none" => infer_calls = 0

\* C5 as stated: besides the order, every run with an uploaded image has made
\* exactly one inference call when it ends.
C5_ExactlyOneCall ==
    /\ C5_Order
    /\ (RunEnded /\ uploaded_file # "none") => infer_calls = 1

\* C5 amended: besides the order, a run with an uploaded image makes at most
\* one inference call: exactly one when it ends through the try block (the
\* image was decoded and written to the temporary file), none when opening or
\* saving the image raised.
C5_AtMostOneCall ==
    /\ C5_Order
    /\ infer_calls <= 1
    /\ (RunEnded /\ uploaded_file # "none") =>
          /\ outcome \in {"ok", "error"} => infer_calls = 1
          /\ outcome = "crash" => (infer_calls = 0 /\ failed_at \in {"open", "save"})

\* C5 witness: a run has gone through the whole pipeline with one call.
C5_Witness ==
    /\ RunEnded
    /\ outcome = "ok"
    /\ steps = PipelineOrder
    /\ infer_calls = 1

\* C6: a run that found no credential has stopped there: no client was
\* constructed, the uploader was not reached and no inference call was made.
C6_NoKeyNoCall ==
    api_key = "missing" =>
        /\ pc = "ready"
        /\ outcome = "stopped"
        /\ CLIENT = "none"
        /\ uploaded_file = "none"
        /\ ~tmp_created
        /\ infer_calls = 0
        /\ steps = <<>>

\* C6 witness: a run has found no credential and shown the error.
C6_Witness ==
    /\ api_key = "missing"
    /\ "key_error" \in shown
    /\ RunEnded

====
